---- MODULE Spec2Model ----
(***************************************************************************)
(* daydoe.py: a polling trading bot.  main() loads the configuration and   *)
(* loops: one tick of run_alpaca_bot or run_ccxt_bot (fetch bars, compute  *)
(* the SMA crossover signal, query the holding, maybe submit one market    *)
(* order), then time.sleep(config['loop_interval_sec']).                   *)
(*                                                                         *)
(* Quantities are counted in units of 5e-9 of the base asset, so that the  *)
(* CCXT threshold 1e-8 is the integer Epsilon and a holding strictly       *)
(* between 0 and 1e-8 is representable.  Close prices are small integers;  *)
(* a rolling mean is kept as the exact fraction sum/n, so the comparisons  *)
(* of the code are exact here (floating-point rounding is not modelled).   *)
(***************************************************************************)
EXTENDS Integers, Sequences, FiniteSets

VARIABLES
    config,      \* the dict returned by load_config (read once, never written)
    loopState,   \* run loop: "Idle", "Running", "Stopped" (break), "Crashed" (uncaught error)
    pc,          \* position of main / of the running tick
    ticked,      \* TRUE once some tick (a call of run_*_bot) has started
    position,    \* quantity held at the backend (owned by the broker / exchange)
    df,          \* this tick's close column (a sequence), <<>> before the fetch
    signal,      \* this tick's signal: "none" until computed, then "buy" | "sell" | "hold"
    current_qty, \* this tick's holding as read (current_qty / base_free), -1 until read
    fetched,     \* this tick's bar fetch: "none" | "failed" | "empty" | "ok"
    queried,     \* this tick's position query: "none" | "ok" | "no_position" | "api_error" | "failed"
    tickErr,     \* the exception that left run_*_bot in this tick, "none" if none
    steps,       \* the backend-facing steps this tick has performed, in order
    tickOrders,  \* the orders this tick has submitted, in order
    orderResult, \* the backend's answer to this tick's order: "none" | "rejected" | "accepted" | "filled"
    lastSide     \* the side of the latest order submitted in any tick, "none" before the first

vars == <<config, loopState, pc, ticked, position, df, signal, current_qty,
          fetched, queried, tickErr, steps, tickOrders, orderResult, lastSide>>

(* ------------------------------ bounds --------------------------------- *)
MaxBars == 2
MaxPrice == 2
MaxWindow == 3
MaxQty == 3
MaxEntry == 3

\* 1e-8, the CCXT "basically 0" threshold, in units of 5e-9
Epsilon == 2

Signals == {"buy", "sell", "hold"}
Brokers == {"alpaca", "ccxt", "other"}
Quantities == 0..MaxQty

\* The required key the configuration file lacks, if any.  "backend" stands for
\* any key the selected backend reads before its first call: the sub-block
\* ('alpaca' / 'ccxt'), one of its keys, or 'time_interval' for CCXT.
MissingKeys == {"none", "broker", "short_window", "long_window",
                "loop_interval_sec", "backend"}

Configs == [broker : Brokers, missing : MissingKeys,
            short_window : 1..MaxWindow, long_window : 1..MaxWindow,
            entry : 1..MaxEntry]

HasKey(k) == config.missing # k

RECURSIVE SeqsUpTo(_)
SeqsUpTo(n) ==
    IF n = 0 THEN {<<>>}
    ELSE LET shorter == SeqsUpTo(n - 1) IN
         shorter \cup {Append(s, p) : s \in {t \in shorter : Len(t) = n - 1},
                                      p \in 1..MaxPrice}

\* every 'close' column a fetch can return
BarSeries == SeqsUpTo(MaxBars)

(* --------------------------- Signal Engine ----------------------------- *)
NaN == [sum |-> 0, n |-> 0]
IsNa(x) == x.n = 0

RECURSIVE SumRange(_, _, _)
SumRange(s, lo, hi) == IF lo > hi THEN 0 ELSE s[hi] + SumRange(s, lo, hi - 1)

\* df['close'].rolling(window=w).mean(): row i is NaN until w rows exist
Rolling(closes, w) ==
    [i \in 1..Len(closes) |->
        IF i < w THEN NaN ELSE [sum |-> SumRange(closes, i - w + 1, i), n |-> w]]

\* a mean over whatever rows exist (rolling(..., min_periods=1)): not what the code does
RollingPartial(closes, w) ==
    [i \in 1..Len(closes) |->
        IF i < w THEN [sum |-> SumRange(closes, 1, i), n |-> i]
        ELSE [sum |-> SumRange(closes, i - w + 1, i), n |-> w]]

\* float comparison: anything compared with NaN is False
Gt(a, b) == ~IsNa(a) /\ ~IsNa(b) /\ a.sum * b.n > b.sum * a.n
Lt(a, b) == ~IsNa(a) /\ ~IsNa(b) /\ a.sum * b.n < b.sum * a.n

SignalFrom(sma_short, sma_long) ==
    IF (\E i \in DOMAIN sma_short : IsNa(sma_short[i]))
       \/ (\E i \in DOMAIN sma_long : IsNa(sma_long[i]))
    THEN "hold"
    ELSE LET short_sma_latest == sma_short[Len(sma_short)]
             long_sma_latest == sma_long[Len(sma_long)]
         IN  IF Gt(short_sma_latest, long_sma_latest) THEN "buy"
             ELSE IF Lt(short_sma_latest, long_sma_latest) THEN "sell"
             ELSE "hold"

SignalFromLatestRow(sma_short, sma_long) ==
    LET short_sma_latest == sma_short[Len(sma_short)]
        long_sma_latest == sma_long[Len(sma_long)]
    IN  IF IsNa(short_sma_latest) \/ IsNa(long_sma_latest) THEN "hold"
        ELSE IF Gt(short_sma_latest, long_sma_latest) THEN "buy"
        ELSE IF Lt(short_sma_latest, long_sma_latest) THEN "sell"
        ELSE "hold"

sma_latest_row_only(closes, short_window, long_window) ==
    SignalFromLatestRow(Rolling(closes, short_window), Rolling(closes, long_window))

sma_partial_windows(closes, short_window, long_window) ==
    SignalFrom(RollingPartial(closes, short_window), RollingPartial(closes, long_window))

\* called on a non-empty frame only (the callers return on df.empty first)
sma_crossover_signals(closes, short_window, long_window) ==
    SignalFrom(Rolling(closes, short_window), Rolling(closes, long_window))

(* ------------------------- Position Reconciler ------------------------- *)
AlpacaBuyWheneverSignalled(sig, qty) ==
    IF sig = "buy" THEN "buy"
    ELSE IF sig = "sell" /\ qty > 0 THEN "sell"
    ELSE "none"

AlpacaSellWheneverSignalled(sig, qty) ==
    IF sig = "buy" /\ qty = 0 THEN "buy"
    ELSE IF sig = "sell" THEN "sell"
    ELSE "none"

\* run_alpaca_bot: if signal == 'buy' and current_qty == 0 / elif signal == 'sell' and current_qty > 0
AlpacaDecision(sig, qty) ==
    IF sig = "buy" /\ qty = 0 THEN "buy"
    ELSE IF sig = "sell" /\ qty > 0 THEN "sell"
    ELSE "none"

\* run_ccxt_bot: if signal == 'buy' and base_free < 1e-8 / elif signal == 'sell' and base_free > 1e-8
CcxtDecision(sig, base_free) ==
    IF sig = "buy" /\ base_free < Epsilon THEN "buy"
    ELSE IF sig = "sell" /\ base_free > Epsilon THEN "sell"
    ELSE "none"

Decision(sig, qty) ==
    IF config.broker = "alpaca" THEN AlpacaDecision(sig, qty) ELSE CcxtDecision(sig, qty)

Sizing(side) ==
    IF config.broker = "alpaca" /\ side = "buy" THEN "notional"
    ELSE IF config.broker = "alpaca" THEN "qty"
    ELSE "amount"

OrderSizedByHolding(side, qty) ==
    [side |-> side, sizing |-> Sizing(side), size |-> qty]

OrderOfEntrySize(side, qty) ==
    [side |-> side, sizing |-> Sizing(side), size |-> config.entry]

\* the order either backend is handed: entries by the configured size (notional /
\* trade_amount), exits by the holding read in this tick
OrderFor(side, qty) ==
    [side |-> side, sizing |-> Sizing(side),
     size |-> IF side = "buy" THEN config.entry ELSE qty]

Min(a, b) == IF a < b THEN a ELSE b

\* the backend's holding once a market order is filled
Filled(side, size) ==
    IF side = "buy" THEN Min(position + size, MaxQty)
    ELSE IF position >= size THEN position - size ELSE 0

(* ------------------------------- Init ---------------------------------- *)
TickLocalsReset ==
    /\ df' = <<>>
    /\ signal' = "none"
    /\ current_qty' = -1
    /\ fetched' = "none"
    /\ queried' = "none"
    /\ tickErr' = "none"
    /\ steps' = <<>>
    /\ tickOrders' = <<>>
    /\ orderResult' = "none"

Init ==
    /\ config \in Configs
    /\ loopState = "Idle"
    /\ pc = "start"
    /\ ticked = FALSE
    /\ position \in Quantities
    /\ df = <<>>
    /\ signal = "none"
    /\ current_qty = -1
    /\ fetched = "none"
    /\ queried = "none"
    /\ tickErr = "none"
    /\ steps = <<>>
    /\ tickOrders = <<>>
    /\ orderResult = "none"
    /\ lastSide = "none"

(* ------------------------------ main() --------------------------------- *)
\* main, lines 196-197: config['broker'] raises KeyError before the loop is entered
MainStart ==
    /\ pc = "start"
    /\ IF HasKey("broker")
       THEN loopState' = "Running" /\ pc' = "dispatch"
       ELSE loopState' = "Crashed" /\ pc' = "done"
    /\ UNCHANGED <<config, ticked, position, df, signal, current_qty, fetched,
                   queried, tickErr, steps, tickOrders, orderResult, lastSide>>

\* main, lines 199-207: call the selected backend's tick, or break on an unknown broker
Dispatch ==
    /\ pc = "dispatch"
    /\ IF config.broker \in {"alpaca", "ccxt"}
       THEN /\ pc' = "init"
            /\ ticked' = TRUE
            /\ loopState' = loopState
       ELSE /\ pc' = "done"
            /\ loopState' = "Stopped"
            /\ ticked' = ticked
    /\ TickLocalsReset
    /\ UNCHANGED <<config, position, lastSide>>

\* an exception leaves run_*_bot and is caught by main's except (lines 208-209)
Raise(err) ==
    /\ tickErr' = err
    /\ pc' = "sleep"

\* run_alpaca_bot lines 53-61 / run_ccxt_bot lines 134-148: read the backend's keys
BotInit ==
    /\ pc = "init"
    /\ IF HasKey("backend")
       THEN pc' = "fetch" /\ tickErr' = tickErr
       ELSE Raise("KeyError")
    /\ UNCHANGED <<config, loopState, ticked, position, df, signal, current_qty,
                   fetched, queried, steps, tickOrders, orderResult, lastSide>>

FetchBarsNoEmptyCheck ==
    /\ pc = "fetch"
    /\ steps' = Append(steps, "fetch")
    /\ \/ /\ fetched' = "failed"
          /\ Raise("FetchError")
          /\ df' = df
       \/ \E bars \in BarSeries :
            /\ df' = bars
            /\ tickErr' = tickErr
            /\ fetched' = IF bars = <<>> THEN "empty" ELSE "ok"
            /\ pc' = "signal"
    /\ UNCHANGED <<config, loopState, ticked, position, signal, current_qty,
                   queried, tickOrders, orderResult, lastSide>>

\* lines 65-83 / 152-158: fetch bars, build the frame, return on an empty frame
FetchBars ==
    /\ pc = "fetch"
    /\ steps' = Append(steps, "fetch")
    /\ \/ /\ fetched' = "failed"
          /\ Raise("FetchError")
          /\ df' = df
       \/ \E bars \in BarSeries :
            /\ df' = bars
            /\ tickErr' = tickErr
            /\ IF bars = <<>>
               THEN fetched' = "empty" /\ pc' = "sleep"
               ELSE fetched' = "ok" /\ pc' = "signal"
    /\ UNCHANGED <<config, loopState, ticked, position, signal, current_qty,
                   queried, tickOrders, orderResult, lastSide>>

\* lines 86-91 / 161-166: config['short_window'], config['long_window'], then the engine
SignalStep(result) ==
    /\ pc = "signal"
    /\ IF HasKey("short_window") /\ HasKey("long_window")
       THEN /\ signal' = result
            /\ steps' = Append(steps, "signal")
            /\ pc' = "position"
            /\ tickErr' = tickErr
       ELSE /\ Raise("KeyError")
            /\ UNCHANGED <<signal, steps>>
    /\ UNCHANGED <<config, loopState, ticked, position, df, current_qty,
                   fetched, queried, tickOrders, orderResult, lastSide>>

ComputeSignal ==
    SignalStep(sma_crossover_signals(df, config.short_window, config.long_window))

\* the reconciler under every value the engine's return type admits
AnySignal == \E s \in Signals : SignalStep(s)

\* lines 93-99: api.get_position answers with the position ("ok"), with an APIError
\* because there is none ("no_position"), with an APIError for another reason such
\* as a refused key or a server error ("api_error"), or the call fails in transport
\* ("failed"); every APIError is taken to mean "no position".
\* lines 168-171: exchange.fetch_balance answers with the balances ("ok"), without an
\* entry for the base asset ("no_position", read as 0), or raises ("failed").
QueryOutcomes == {"ok", "no_position", "api_error", "failed"}

QueryRaisesOnNoPosition(outcome) == outcome \in {"failed", "no_position"}

\* the outcomes that leave the tick as an exception: the Alpaca try/except (lines
\* 94-99) catches every APIError, fetch_balance (line 169) is not wrapped at all
QueryRaises(outcome) == outcome = "failed"

\* current_qty = float(position.qty), or 0 in the except branch (lines 96-99);
\* base_free = balances.get(base_symbol, {}).get('free', 0) (line 171)
HoldingRead(outcome) == IF outcome = "ok" THEN position ELSE 0

QueryPosition ==
    /\ pc = "position"
    /\ steps' = Append(steps, "position")
    /\ \E outcome \in QueryOutcomes :
         /\ outcome = "ok" => (config.broker = "alpaca" => position > 0)
         /\ outcome = "no_position" => position = 0
         /\ outcome = "api_error" => config.broker = "alpaca"
         /\ queried' = outcome
         /\ IF QueryRaises(outcome)
            THEN Raise("QueryError") /\ current_qty' = current_qty
            ELSE /\ current_qty' = HoldingRead(outcome)
                 /\ pc' = "reconcile"
                 /\ tickErr' = tickErr
    /\ UNCHANGED <<config, loopState, ticked, position, df, signal, fetched,
                   tickOrders, orderResult, lastSide>>

\* lines 101-123 / 173-189: decide, and submit at most one market order.  A rejected
\* Alpaca order raises out of the tick; a rejected CCXT order is caught in place.
Reconcile ==
    /\ pc = "reconcile"
    /\ LET side == Decision(signal, current_qty) IN
       IF side = "none"
       THEN /\ pc' = "sleep"
            /\ UNCHANGED <<position, tickErr, steps, tickOrders, orderResult, lastSide>>
       ELSE LET order == OrderFor(side, current_qty) IN
            /\ steps' = Append(steps, "order")
            /\ tickOrders' = Append(tickOrders, order)
            /\ lastSide' = order.side
            /\ \E result \in {"rejected", "accepted", "filled"} :
                 /\ orderResult' = result
                 /\ position' = IF result = "filled" THEN Filled(order.side, order.size)
                                ELSE position
                 /\ IF result = "rejected" /\ config.broker = "alpaca"
                    THEN Raise("OrderError")
                    ELSE pc' = "sleep" /\ tickErr' = tickErr
    /\ UNCHANGED <<config, loopState, ticked, df, signal, current_qty, fetched, queried>>

\* main, line 212: time.sleep(config['loop_interval_sec']), outside the try
Sleep ==
    /\ pc = "sleep"
    /\ IF HasKey("loop_interval_sec")
       THEN pc' = "dispatch" /\ loopState' = loopState
       ELSE pc' = "done" /\ loopState' = "Crashed"
    /\ UNCHANGED <<config, ticked, position, df, signal, current_qty, fetched,
                   queried, tickErr, steps, tickOrders, orderResult, lastSide>>

\* another party trades the instrument while the loop sleeps between two ticks
ExternalTrade ==
    /\ pc = "sleep"
    /\ \E q \in Quantities : q # position /\ position' = q
    /\ UNCHANGED <<config, loopState, pc, ticked, df, signal, current_qty, fetched,
                   queried, tickErr, steps, tickOrders, orderResult, lastSide>>

Next ==
    \/ MainStart
    \/ Dispatch
    \/ BotInit
    \/ FetchBars
    \/ ComputeSignal
    \/ QueryPosition
    \/ Reconcile
    \/ Sleep
    \/ ExternalTrade

Spec == Init /\ [][Next]_vars

\* the same program with the signal engine replaced by an arbitrary one
ReconcileNext ==
    \/ MainStart
    \/ Dispatch
    \/ BotInit
    \/ FetchBars
    \/ AnySignal
    \/ QueryPosition
    \/ Reconcile
    \/ Sleep
    \/ ExternalTrade

ReconcileSpec == Init /\ [][ReconcileNext]_vars

\* the backend fills every order it is handed before the next tick's query
ReconcileFilled == Reconcile /\ orderResult' \in {"none", "filled"}

\* the program with an arbitrary signal engine, an entry size above the flat
\* threshold, a backend that fills every order at once and no other party trading
FilledInit == Init /\ config.entry > Epsilon

FilledNext ==
    \/ MainStart
    \/ Dispatch
    \/ BotInit
    \/ FetchBars
    \/ AnySignal
    \/ QueryPosition
    \/ ReconcileFilled
    \/ Sleep

FilledSpec == FilledInit /\ [][FilledNext]_vars

(* ------------------------------ claims --------------------------------- *)
\* the mean of the trailing w closes at the latest bar, undefined on a shorter series
TrailingAvg(closes, w) ==
    IF Len(closes) < w THEN NaN
    ELSE [sum |-> SumRange(closes, Len(closes) - w + 1, Len(closes)), n |-> w]

CrossoverAtLatestBar(closes, sw, lw) ==
    IF Gt(TrailingAvg(closes, sw), TrailingAvg(closes, lw)) THEN "buy"
    ELSE IF Lt(TrailingAvg(closes, sw), TrailingAvg(closes, lw)) THEN "sell"
    ELSE "hold"

WindowsConfigured == HasKey("short_window") /\ HasKey("long_window")

\* this tick has gone through its reconciliation (lines 101-123 / 173-189)
Reconciled == current_qty # -1 /\ pc # "reconcile"

BuyOrder ==
    [side |-> "buy",
     sizing |-> IF config.broker = "alpaca" THEN "notional" ELSE "amount",
     size |-> config.entry]

SellOrder(q) ==
    [side |-> "sell",
     sizing |-> IF config.broker = "alpaca" THEN "qty" ELSE "amount",
     size |-> q]

\* C1: on a series of at least longWindow bars (both trailing averages defined at the
\* latest bar) the computed signal is Buy when the short average exceeds the long
\* one, Sell when it is less, Hold when they are equal.
C1_SignalFollowsCrossover ==
    (signal # "none" /\ WindowsConfigured
        /\ Len(df) >= config.long_window /\ Len(df) >= config.short_window)
    => signal = CrossoverAtLatestBar(df, config.short_window, config.long_window)

\* C2: on a series of fewer than longWindow bars the computed signal is Hold, whatever
\* the prices and even when the short average is computable, and the tick submits
\* no order whatever the holding is.
C2_ShortSeriesHolds ==
    (fetched \in {"ok", "empty"} /\ WindowsConfigured /\ Len(df) < config.long_window)
    => /\ signal \in {"none", "hold"}
       /\ tickOrders = <<>>

\* a finished tick on a series where the short average exists and the long one does
\* not, with a holding in hand: Hold, and nothing submitted
C2_Witness ==
    /\ pc = "sleep"
    /\ Reconciled
    /\ Len(df) >= config.short_window
    /\ Len(df) < config.long_window
    /\ signal = "hold"
    /\ current_qty > 0
    /\ tickOrders = <<>>

\* C3: a tick whose signal is Buy and whose holding reads 0 submits exactly one
\* market Buy order, sized by the configured entry size (Alpaca: notional; CCXT:
\* trade_amount).
C3_BuyWhenFlat ==
    (Reconciled /\ signal = "buy" /\ current_qty = 0) => tickOrders = <<BuyOrder>>

C3_Witness ==
    /\ Reconciled
    /\ signal = "buy"
    /\ current_qty = 0
    /\ Len(tickOrders) = 1
    /\ tickOrders[1].side = "buy"
    /\ position > 0

\* the holding either backend treats as "already in position" under a Buy signal:
\* Alpaca any q # 0, CCXT any q >= 1e-8
InPosition(q) == IF config.broker = "alpaca" THEN q > 0 ELSE q >= Epsilon

\* C4 as stated: a tick whose signal is Buy and whose holding is any positive quantity
\* submits no order, on either backend.
C4_NoBuyWhenPositive ==
    (Reconciled /\ signal = "buy" /\ current_qty > 0) => tickOrders = <<>>

\* C4 amended: a tick whose signal is Buy submits no order when the holding read is
\* in position: any positive quantity on Alpaca, any quantity of at least 1e-8 on
\* CCXT (a CCXT holding below 1e-8 counts as flat and is bought into).
C4_NoBuyWhenInPosition ==
    (Reconciled /\ signal = "buy" /\ InPosition(current_qty)) => tickOrders = <<>>

C4_Witness ==
    /\ Reconciled
    /\ pc = "sleep"
    /\ signal = "buy"
    /\ config.broker = "ccxt"
    /\ current_qty = Epsilon
    /\ tickOrders = <<>>

\* the holding either backend sells under a Sell signal: Alpaca any q > 0, CCXT any
\* q > 1e-8
Sellable(q) == IF config.broker = "alpaca" THEN q > 0 ELSE q > Epsilon

\* C5 as stated: a tick whose signal is Sell and whose holding is any q > 0 submits
\* exactly one market Sell order of size q, on either backend.
C5_SellAllWhenPositive ==
    (Reconciled /\ signal = "sell" /\ current_qty > 0)
    => tickOrders = <<SellOrder(current_qty)>>

\* C5 amended: a tick whose signal is Sell submits exactly one market Sell order whose
\* size is the whole quantity q read in that tick when q > 0 on Alpaca and when
\* q > 1e-8 on CCXT (a CCXT holding of at most 1e-8 is not sold).
C5_SellAllWhenSellable ==
    (Reconciled /\ signal = "sell" /\ Sellable(current_qty))
    => tickOrders = <<SellOrder(current_qty)>>

C5_Witness ==
    /\ Reconciled
    /\ signal = "sell"
    /\ current_qty = MaxQty
    /\ config.entry # MaxQty
    /\ Len(tickOrders) = 1
    /\ tickOrders[1].side = "sell"
    /\ tickOrders[1].size = MaxQty

\* C6: a tick whose signal is Hold submits no order for any holding, and neither does
\* a tick whose signal is Sell while the holding reads 0; on both backends.
C6_NoOrderOnHoldOrFlatSell ==
    (Reconciled /\ (signal = "hold" \/ (signal = "sell" /\ current_qty = 0)))
    => tickOrders = <<>>

C6_Witness ==
    /\ Reconciled
    /\ pc = "sleep"
    /\ signal = "sell"
    /\ current_qty = 0
    /\ tickOrders = <<>>

\* C7: a tick whose bar fetch fails or returns an empty series is skipped: no signal is
\* computed, the position is not queried, no order is submitted, and the run loop
\* stays Running.
C7_FailedFetchSkipsTick ==
    fetched \in {"failed", "empty"}
    => /\ signal = "none"
       /\ queried = "none"
       /\ tickOrders = <<>>
       /\ loopState = "Running"

\* C8: with a recognized broker, an error raised at any step of a tick (also a
\* rejected order) never ends the run loop.
C8_TickErrorNeverEndsLoop ==
    (HasKey("broker") /\ config.broker \in {"alpaca", "ccxt"}
        /\ (tickErr # "none" \/ orderResult = "rejected"))
    => loopState = "Running"

\* C9: with a required configuration key missing, no tick ever starts and no backend
\* call is ever made.
C9_MissingKeyHaltsBeforeTicking ==
    config.missing # "none" => (~ticked /\ steps = <<>>)

UnknownBroker == HasKey("broker") /\ config.broker \notin {"alpaca", "ccxt"}

\* C10: with a broker that is neither 'alpaca' nor 'ccxt' no tick runs and no backend
\* call is made; the run loop leaves Running only for that reason, and then to
\* Stopped; and Stopped is never left.
C10_OnlyUnknownBrokerStops ==
    /\ [](UnknownBroker => (~ticked /\ steps = <<>>))
    /\ [][(loopState = "Running" /\ loopState' # "Running")
            => (UnknownBroker /\ loopState' = "Stopped")]_vars
    /\ [][loopState = "Stopped" => loopState' = "Stopped"]_vars

\* C11: when the position query reports that no position exists, the tick takes the
\* holding to be 0 and goes on to its reconciliation (the query step neither raises
\* out of the tick nor takes the loop out of Running), so that a Buy signal still
\* submits the Buy order in that tick.
C11_NoPositionReadsAsFlat ==
    /\ [](queried = "no_position"
            => /\ current_qty = 0
               /\ tickErr # "QueryError"
               /\ pc # "position"
               /\ (Reconciled /\ signal = "buy") => tickOrders = <<BuyOrder>>)
    /\ [][(queried # "no_position" /\ queried' = "no_position")
            => (pc' = "reconcile" /\ tickErr' = "none" /\ loopState' = "Running")]_vars

C11_Witness ==
    /\ queried = "no_position"
    /\ Reconciled
    /\ signal = "buy"
    /\ tickOrders = <<BuyOrder>>
    /\ orderResult = "filled"
    /\ position > 0

\* C12: a position query that fails for a transport or authentication reason ends the
\* tick as an error: the holding is not taken to be 0 and no order is submitted.
C12_QueryFailureEndsTick ==
    queried \in {"api_error", "failed"}
    => /\ current_qty = -1
       /\ tickErr = "QueryError"
       /\ tickOrders = <<>>

\* C13: the holding a tick decides on is the quantity the backend holds when that tick
\* queries it, whatever earlier ticks read and whatever was traded in between.
C13_DecidesOnBackendHolding ==
    pc = "reconcile" => current_qty = position

TickSteps == <<"fetch", "signal", "position", "order">>

\* C14: the steps of a tick happen in the order fetch, signal, position query, order;
\* an order is submitted only after a successful non-empty fetch, the signal and the
\* position query of the same tick; a tick submits at most one order; a tick starts
\* only from the loop head, which is reached only from startup or after the sleep,
\* and the sleep only follows the end of a tick.
C14_TickIsSequential ==
    /\ [](/\ Len(steps) <= Len(TickSteps)
          /\ steps = SubSeq(TickSteps, 1, Len(steps))
          /\ Len(tickOrders) <= 1)
    /\ [](tickOrders # <<>>
            => /\ steps = TickSteps
               /\ fetched = "ok"
               /\ df # <<>>
               /\ signal # "none"
               /\ queried \in {"ok", "no_position", "api_error"})
    /\ [][(pc' = "init" /\ pc # "init") => (pc = "dispatch" /\ steps' = <<>>)]_vars
    /\ [][(pc' = "dispatch" /\ pc # "dispatch") => pc \in {"start", "sleep"}]_vars
    /\ [][(pc' = "sleep" /\ pc # "sleep")
            => pc \in {"init", "fetch", "signal", "position", "reconcile"}]_vars

C14_Witness ==
    /\ pc = "sleep"
    /\ steps = TickSteps
    /\ Len(tickOrders) = 1
    /\ fetched = "ok"
    /\ orderResult = "accepted"

Rising(closes) == \A i \in 1..(Len(closes) - 1) : closes[i] < closes[i + 1]

\* C15: a tick whose series has at least longWindow bars with steadily rising closes
\* (shortWindow < longWindow, so the short average exceeds the long one at the
\* latest bar) and whose holding reads 0 computes Buy and submits a Buy order of the
\* configured size.
C15_RisingSeriesBuys ==
    (Reconciled /\ WindowsConfigured /\ Rising(df)
        /\ config.short_window < config.long_window
        /\ Len(df) >= config.long_window /\ current_qty = 0)
    => /\ signal = "buy"
       /\ tickOrders = <<BuyOrder>>

\* C16: the signal engine returns 'hold' on every series it is given, for every pair of
\* windows, and no tick of either backend ever submits an order.
C16_EngineAlwaysHolds ==
    /\ signal \in {"none", "hold"}
    /\ tickOrders = <<>>
    /\ lastSide = "none"

\* a finished tick on a full series whose short average exceeds the long one at the
\* latest bar, holding 0: still Hold, nothing submitted
C16_Witness ==
    /\ pc = "sleep"
    /\ Reconciled
    /\ WindowsConfigured
    /\ Len(df) >= config.long_window
    /\ CrossoverAtLatestBar(df, config.short_window, config.long_window) = "buy"
    /\ signal = "hold"
    /\ current_qty = 0
    /\ tickOrders = <<>>

ActionTaken == IF tickOrders = <<>> THEN "none" ELSE tickOrders[1].side

BackendsAgreeHere ==
    /\ ActionTaken = AlpacaDecision(signal, current_qty)
    /\ ActionTaken = CcxtDecision(signal, current_qty)
    /\ ActionTaken = "sell" => tickOrders[1].size = current_qty

\* C17 as stated: for every signal and every holding q >= 0 the action a tick takes is
\* the one either backend's rule chooses (Buy, Sell of q, or none).
C17_BackendsAgree ==
    Reconciled => BackendsAgreeHere

\* C17 amended: the two backends choose the same action for every signal when the
\* holding is 0 or above 1e-8; for 0 < q <= 1e-8 their rules differ (Alpaca: flat
\* only at exactly 0, long for any q > 0; CCXT: flat below 1e-8, long above it).
C17_BackendsAgreeOffTheThreshold ==
    (Reconciled /\ (current_qty = 0 \/ current_qty > Epsilon)) => BackendsAgreeHere

C17_Witness ==
    /\ Reconciled
    /\ config.broker = "alpaca"
    /\ signal = "sell"
    /\ current_qty > Epsilon
    /\ tickOrders = <<SellOrder(current_qty)>>

\* C18: with every order filled at once, nobody else trading and an entry size above
\* 1e-8, each submitted order has the other side than the one before it, the first
\* order from a holding of 0 is a Buy, and each Sell leaves the holding at 0.
C18_OrdersAlternate ==
    [][(tickOrders' # tickOrders /\ tickOrders' # <<>>)
        => /\ tickOrders'[1].side # lastSide
           /\ (lastSide = "none" /\ position = 0) => tickOrders'[1].side = "buy"
           /\ tickOrders'[1].side = "sell" => position' = 0]_vars

====
